---- MODULE Spec2Model ----
(***************************************************************************)
(* Model of odilia-input: the input monitoring thread of src/lib.rs (init, *)
(* the rdev::grab callback, the pressed-key tracker, keybind_match and the *)
(* bounded tokio mpsc channel) and the key binding registry of             *)
(* src/keybinds.rs (KB_MAP, SR_MODE, add/remove/match).                    *)
(***************************************************************************)
EXTENDS Integers, Sequences, FiniteSets, TLC

(* ---------------------------------------------------------------------- *)
(* Bounds of the model                                                      *)
(* ---------------------------------------------------------------------- *)
\* calls of init() made by the program
MaxInits == 2
\* raw events delivered by the OS in one run of the input monitoring threads
MaxRaw == 2
\* raw events delivered by the OS in one run of the single-thread key runs
MaxKeys == 3
\* raw events delivered beyond the channel capacity in the backpressure runs
MaxExtra == 2
\* events the consumer dequeues in the backpressure runs
MaxDrain == 2
\* repeated deliveries of Press(KeyA) in the auto-repeat runs
MaxRepeats == 2
\* async tasks that call into keybinds.rs next to the capture thread
MaxTasks == 1

(* ---------------------------------------------------------------------- *)
(* Program constants                                                        *)
(* ---------------------------------------------------------------------- *)
MAX_EVENTS == 256

\* Option<T>: Some(x) or NoneOpt
NoneOpt == <<>>
Some(x) == <<x>>
\* an OnceCell is an Option: NoneOpt until it is set

Threads == 1..MaxInits

\* rdev::Key values used by the model
RDevKeys == {"ControlLeft", "ShiftLeft", "KeyA"}
EventTypes == {"KeyPress", "KeyRelease"}

\* odilia_common::modes::ScreenReaderMode values; SR_MODE starts at the first
DefaultMode == "CommandMoode"
Modes == {"CommandMoode", "BrowseMode"}

\* odilia_common::input::Modifiers, a bitflags set: the set of its set bits
ModifierBits == {"CONTROL_L", "SHIFT_L"}
ModifiersEmpty == {}
ModifiersNONE == {}
Intersects(a, b) == (a \cap b) # {}
Contains(a, b) == (a \cap b) = b

EventActions == {"Passthrough", "Notify", "Consume"}

\* EventAction::notify, and the variant that leaves Consume out
notify_without_consume(action) == action = "Notify"
notify(action) == action \in {"Notify", "Consume"}

(* ---------------------------------------------------------------------- *)
(* Key bindings                                                             *)
(* ---------------------------------------------------------------------- *)
KB(k, m, r, md, n, c) ==
  [key |-> k, mods |-> m, repeat |-> r, mode |-> md, notify |-> n, consume |-> c]

CtrlA == KB("a", {"CONTROL_L"}, 1, NoneOpt, TRUE, TRUE)
PlainA == KB("a", {}, 1, NoneOpt, TRUE, FALSE)
BrowseCtrlA == KB("a", {"CONTROL_L"}, 1, Some("BrowseMode"), TRUE, TRUE)
CtrlShiftA == KB("a", {"CONTROL_L", "SHIFT_L"}, 1, NoneOpt, FALSE, FALSE)
ShiftAConsumeOnly == KB("a", {"SHIFT_L"}, 1, NoneOpt, FALSE, TRUE)
TwiceShiftA == KB("a", {"SHIFT_L"}, 2, NoneOpt, TRUE, FALSE)

\* the keymaps handed to init in the key runs
KeyMaps == {{CtrlA, PlainA}, {BrowseCtrlA, CtrlShiftA, TwiceShiftA}}

(* ---------------------------------------------------------------------- *)
(* State                                                                    *)
(* ---------------------------------------------------------------------- *)
VARIABLES
  KEY_BINDING_FUNCS, \* OnceCell: the keymap of the first init, once set
  TX,                \* thread local OnceCell of each thread: its channel, once set
  DECIDE_ACTION,     \* thread local OnceCell of each thread: set or not
  CURRENT_KEYS,      \* Vec<RDevKey>
  LAST_KEYS,         \* Vec<RDevKey>
  pc,                \* position of each capture thread
  queue,             \* the channel created by each init: its buffered events
  rxAlive,           \* the Receiver returned by each init is not dropped
  cur,               \* the callback a thread is in: event, decision, what it scheduled
  last,              \* the last callback that returned, and its thread
  notified,          \* per thread: events decided Notify or Consume, in order
  received,          \* per channel: events the consumer dequeued, in order
  scheduled,         \* number of functions spawned on the runtime
  clock,             \* raw events delivered so far
  drained,           \* events dequeued so far
  SR_MODE,           \* current screen reader mode
  KB_MAP,            \* registry of keybinds.rs: binding -> action
  kbLock,            \* the KB_MAP mutex is held
  regop,             \* the registry operation in progress, or the last one
  srLock,            \* the SR_MODE mutex is held
  task               \* per caller of keybinds.rs: its call, its position, the
                     \* guards it holds

captureVars == <<KEY_BINDING_FUNCS, TX, DECIDE_ACTION, CURRENT_KEYS, LAST_KEYS,
                 pc, queue, rxAlive, cur, last, notified, received, scheduled,
                 clock, drained>>
lockVars == <<srLock, task>>
registryVars == <<KB_MAP, kbLock, regop, srLock, task>>
vars == <<KEY_BINDING_FUNCS, TX, DECIDE_ACTION, CURRENT_KEYS, LAST_KEYS,
          pc, queue, rxAlive, cur, last, notified, received, scheduled,
          clock, drained, SR_MODE, KB_MAP, kbLock, regop, srLock, task>>

(* ---------------------------------------------------------------------- *)
(* Pure functions of src/lib.rs                                             *)
(* ---------------------------------------------------------------------- *)
\* format!("{:?}", key) of a fieldless rdev::Key variant: the variant's name
DebugFmt(k) == k

\* vector_eq, after the variant that tests the lengths for inequality
vector_eq_other_len(va, vb) ==
  /\ Len(va) # Len(vb)
  /\ \A i \in 1..Len(va) : DebugFmt(va[i]) = DebugFmt(vb[i])
vector_eq(va, vb) ==
  /\ Len(va) = Len(vb)
  /\ \A i \in 1..Len(va) : DebugFmt(va[i]) = DebugFmt(vb[i])

\* the code -> modifier bit table, restricted to the keys of the model
ModifierOf(k) ==
  CASE k = "ControlLeft" -> {"CONTROL_L"}
    [] k = "ShiftLeft" -> {"SHIFT_L"}
    [] OTHER -> ModifiersEmpty

RECURSIVE rdev_keys_to_odilia_modifiers(_)
rdev_keys_to_odilia_modifiers(keys) ==
  IF keys = <<>> THEN ModifiersEmpty
  ELSE ModifierOf(Head(keys)) \cup rdev_keys_to_odilia_modifiers(Tail(keys))

\* the code -> Key table, restricted to the keys of the model
KeyOf(k) == IF k = "KeyA" THEN Some("a") ELSE NoneOpt

RECURSIVE rdev_keys_to_single_odilia_key(_)
rdev_keys_to_single_odilia_key(keys) ==
  IF keys = <<>> THEN NoneOpt
  ELSE IF KeyOf(Head(keys)) # NoneOpt THEN KeyOf(Head(keys))
  ELSE rdev_keys_to_single_odilia_key(Tail(keys))

\* Vec::dedup: removes consecutive repeated elements
RECURSIVE Dedup(_)
Dedup(s) ==
  IF Len(s) <= 1 THEN s
  ELSE IF s[1] = s[2] THEN Dedup(Tail(s))
  ELSE <<s[1]>> \o Dedup(Tail(s))

\* Vec::retain(|&k| k != x)
Retain(s, x) == SelectSeq(s, LAMBDA k : k # x)

\* the body of keybind_match's loop for one binding; key, mods, mode and
\* consume are Options
KeybindMatches(kb, key, mods, repeat, mode, consume) ==
  /\ kb.repeat = repeat
  /\ key # NoneOpt /\ kb.key = key[1]
  /\ (mods # NoneOpt => (mods[1] # ModifiersNONE /\ Contains(kb.mods, mods[1])))
  /\ (consume # NoneOpt => kb.consume = consume[1])
  /\ (mode # NoneOpt => kb.mode = Some(mode[1]))

\* keybind_match over a keymap: the first matching entry in the HashMap's
\* iteration order, which is any of the matching entries
keybind_match(keymap, key, mods, repeat, mode, consume) ==
  LET hits == {kb \in keymap :
                 KeybindMatches(kb, key, mods, repeat, mode, consume)}
  IN IF hits = {} THEN {NoneOpt} ELSE {Some(kb) : kb \in hits}

\* rdev_event_to_func_to_call: the new CURRENT_KEYS and LAST_KEYS, the
\* tracker's outcome and the functions the call can return. The variant that
\* comes first also looks for a binding when a key is released.
rdev_event_to_func_to_call_on_release(keymap, event, current_keys) ==
  IF event.event_type = "KeyPress" THEN
    LET lk == current_keys
        ck == Dedup(Append(current_keys, event.key))
        key == rdev_keys_to_single_odilia_key(ck)
        mods == rdev_keys_to_odilia_modifiers(ck)
    IN IF ~vector_eq(lk, ck)
       THEN [current |-> ck, last |-> lk, outcome |-> "NewTransition",
             key |-> key, mods |-> mods,
             funcs |-> keybind_match(keymap, key, Some(mods), 1, NoneOpt, NoneOpt)]
       ELSE [current |-> ck, last |-> lk, outcome |-> "Repeat",
             key |-> NoneOpt, mods |-> ModifiersEmpty, funcs |-> {NoneOpt}]
  ELSE
    LET ck == Retain(current_keys, event.key)
    IN [current |-> ck, last |-> current_keys,
        outcome |-> "Release", key |-> NoneOpt, mods |-> ModifiersEmpty,
        funcs |-> keybind_match(keymap, rdev_keys_to_single_odilia_key(ck),
                                Some(rdev_keys_to_odilia_modifiers(ck)), 1,
                                NoneOpt, NoneOpt)]
rdev_event_to_func_to_call(keymap, event, current_keys) ==
  IF event.event_type = "KeyPress" THEN
    LET lk == current_keys
        ck == Dedup(Append(current_keys, event.key))
        key == rdev_keys_to_single_odilia_key(ck)
        mods == rdev_keys_to_odilia_modifiers(ck)
    IN IF ~vector_eq(lk, ck)
       THEN [current |-> ck, last |-> lk, outcome |-> "NewTransition",
             key |-> key, mods |-> mods,
             funcs |-> keybind_match(keymap, key, Some(mods), 1, NoneOpt, NoneOpt)]
       ELSE [current |-> ck, last |-> lk, outcome |-> "Repeat",
             key |-> NoneOpt, mods |-> ModifiersEmpty, funcs |-> {NoneOpt}]
  ELSE
    [current |-> Retain(current_keys, event.key), last |-> current_keys,
     outcome |-> "Release", key |-> NoneOpt, mods |-> ModifiersEmpty,
     funcs |-> {NoneOpt}]

(* ---------------------------------------------------------------------- *)
(* src/lib.rs: init and the input monitoring thread                         *)
(* ---------------------------------------------------------------------- *)
NoEvent == [event_type |-> "None", key |-> "None", time |-> 0]
NoCall == [ev |-> NoEvent, outcome |-> "None", key |-> NoneOpt,
           mods |-> ModifiersEmpty, func |-> NoneOpt, action |-> "None",
           mode |-> DefaultMode, attempted |-> FALSE, sendErr |-> FALSE,
           returned |-> NoneOpt, thread |-> 0]

InitCapture ==
  /\ KEY_BINDING_FUNCS = NoneOpt
  /\ TX = [t \in Threads |-> NoneOpt]
  /\ DECIDE_ACTION = [t \in Threads |-> FALSE]
  /\ CURRENT_KEYS = <<>>
  /\ LAST_KEYS = <<>>
  /\ pc = [t \in Threads |-> "none"]
  /\ queue = [t \in Threads |-> <<>>]
  /\ rxAlive = [t \in Threads |-> FALSE]
  /\ cur = [t \in Threads |-> NoCall]
  /\ last = NoCall
  /\ notified = [t \in Threads |-> <<>>]
  /\ received = [t \in Threads |-> <<>>]
  /\ scheduled = 0
  /\ clock = 0
  /\ drained = 0

\* init(decide_action, keymap), up to the return of the Receiver: the t-th
\* call sets KEY_BINDING_FUNCS (the result of set is dropped), creates its
\* channel and spawns its thread
init(t, keymap) ==
  /\ pc[t] = "none"
  /\ \A u \in Threads : u < t => pc[u] # "none"
  /\ KEY_BINDING_FUNCS' = IF KEY_BINDING_FUNCS = NoneOpt THEN Some(keymap)
                          ELSE KEY_BINDING_FUNCS
  /\ queue' = [queue EXCEPT ![t] = <<>>]
  /\ rxAlive' = [rxAlive EXCEPT ![t] = TRUE]
  /\ pc' = [pc EXCEPT ![t] = "spawned"]
  /\ UNCHANGED <<TX, DECIDE_ACTION, CURRENT_KEYS, LAST_KEYS, cur, last,
                 notified, received, scheduled, clock, drained, SR_MODE>>
  /\ UNCHANGED registryVars

\* the start of the spawned thread: TX.set(tx).unwrap(), DECIDE_ACTION.set
\* (panic when it fails) on the thread's own thread locals, then rdev::grab
ThreadStart(t) ==
  /\ pc[t] = "spawned"
  /\ IF TX[t] # NoneOpt \/ DECIDE_ACTION[t]
     THEN /\ pc' = [pc EXCEPT ![t] = "panicked"]
          /\ UNCHANGED <<TX, DECIDE_ACTION>>
     ELSE /\ TX' = [TX EXCEPT ![t] = Some(t)]
          /\ DECIDE_ACTION' = [DECIDE_ACTION EXCEPT ![t] = TRUE]
          /\ pc' = [pc EXCEPT ![t] = "idle"]
  /\ UNCHANGED <<KEY_BINDING_FUNCS, CURRENT_KEYS, LAST_KEYS, queue, rxAlive,
                 cur, last, notified, received, scheduled, clock, drained,
                 SR_MODE>>
  /\ UNCHANGED registryVars

\* what the callback returns to rdev: Some(ev) propagates, None suppresses
CallbackReturn(call) ==
  IF call.action = "Consume" THEN NoneOpt ELSE Some(call.ev)

\* the grab callback of thread t for one raw event, up to the decision: lock
\* CURRENT_KEYS and LAST_KEYS, track the key, spawn the matched function,
\* decide; it returns at once unless the decision notifies. The two mutexes
\* are held until the callback returns, so no callback starts while a thread
\* is in blocking_send.
Callback(t, event_type, key, action, maxRaw) ==
  /\ pc[t] = "idle"
  /\ clock < maxRaw
  /\ \A u \in Threads : pc[u] # "send"
  /\ LET ev == [event_type |-> event_type, key |-> key, time |-> clock + 1]
         r == rdev_event_to_func_to_call(KEY_BINDING_FUNCS[1], ev, CURRENT_KEYS)
     IN \E f \in r.funcs :
          LET call == [ev |-> ev, outcome |-> r.outcome, key |-> r.key,
                       mods |-> r.mods, func |-> f, action |-> action,
                       mode |-> SR_MODE, attempted |-> FALSE,
                       sendErr |-> FALSE, returned |-> NoneOpt, thread |-> t]
          IN /\ CURRENT_KEYS' = r.current
             /\ LAST_KEYS' = r.last
             /\ scheduled' = IF f # NoneOpt THEN scheduled + 1 ELSE scheduled
             /\ clock' = clock + 1
             /\ IF notify(action)
                THEN /\ pc' = [pc EXCEPT ![t] = "send"]
                     /\ cur' = [cur EXCEPT ![t] = call]
                     /\ notified' = [notified EXCEPT ![t] = Append(@, ev)]
                     /\ UNCHANGED last
                ELSE /\ last' = [call EXCEPT !.returned = Some(CallbackReturn(call))]
                     /\ UNCHANGED <<pc, cur, notified>>
  /\ UNCHANGED <<KEY_BINDING_FUNCS, TX, DECIDE_ACTION, queue, rxAlive,
                 received, drained, SR_MODE>>
  /\ UNCHANGED registryVars

\* tx.blocking_send(ev.clone()) and the return of the callback: an error when
\* the Receiver was dropped, else it waits for a free slot of the channel.
\* Two variants come first: a channel that takes one event more than
\* MAX_EVENTS, and a send that enqueues the event twice.
BlockingSendOneMore(t) ==
  /\ pc[t] = "send"
  /\ rxAlive[TX[t][1]] => Len(queue[TX[t][1]]) <= MAX_EVENTS
  /\ queue' = IF rxAlive[TX[t][1]]
              THEN [queue EXCEPT ![TX[t][1]] = Append(@, cur[t].ev)]
              ELSE queue
  /\ last' = [cur[t] EXCEPT !.attempted = TRUE,
                            !.sendErr = ~rxAlive[TX[t][1]],
                            !.returned = Some(CallbackReturn(cur[t]))]
  /\ cur' = [cur EXCEPT ![t] = NoCall]
  /\ pc' = [pc EXCEPT ![t] = "idle"]
  /\ UNCHANGED <<KEY_BINDING_FUNCS, TX, DECIDE_ACTION, CURRENT_KEYS, LAST_KEYS,
                 rxAlive, notified, received, scheduled, clock, drained,
                 SR_MODE>>
  /\ UNCHANGED registryVars
BlockingSendTwice(t) ==
  /\ pc[t] = "send"
  /\ rxAlive[TX[t][1]] => Len(queue[TX[t][1]]) < MAX_EVENTS
  /\ queue' = IF rxAlive[TX[t][1]]
              THEN [queue EXCEPT ![TX[t][1]] = Append(Append(@, cur[t].ev), cur[t].ev)]
              ELSE queue
  /\ last' = [cur[t] EXCEPT !.attempted = TRUE,
                            !.sendErr = ~rxAlive[TX[t][1]],
                            !.returned = Some(CallbackReturn(cur[t]))]
  /\ cur' = [cur EXCEPT ![t] = NoCall]
  /\ pc' = [pc EXCEPT ![t] = "idle"]
  /\ UNCHANGED <<KEY_BINDING_FUNCS, TX, DECIDE_ACTION, CURRENT_KEYS, LAST_KEYS,
                 rxAlive, notified, received, scheduled, clock, drained,
                 SR_MODE>>
  /\ UNCHANGED registryVars
BlockingSend(t) ==
  /\ pc[t] = "send"
  /\ rxAlive[TX[t][1]] => Len(queue[TX[t][1]]) < MAX_EVENTS
  /\ queue' = IF rxAlive[TX[t][1]]
              THEN [queue EXCEPT ![TX[t][1]] = Append(@, cur[t].ev)]
              ELSE queue
  /\ last' = [cur[t] EXCEPT !.attempted = TRUE,
                            !.sendErr = ~rxAlive[TX[t][1]],
                            !.returned = Some(CallbackReturn(cur[t]))]
  /\ cur' = [cur EXCEPT ![t] = NoCall]
  /\ pc' = [pc EXCEPT ![t] = "idle"]
  /\ UNCHANGED <<KEY_BINDING_FUNCS, TX, DECIDE_ACTION, CURRENT_KEYS, LAST_KEYS,
                 rxAlive, notified, received, scheduled, clock, drained,
                 SR_MODE>>
  /\ UNCHANGED registryVars

\* rx.recv() of the consumer on the channel of the t-th init
Recv(t, maxDrain) ==
  /\ rxAlive[t]
  /\ queue[t] # <<>>
  /\ drained < maxDrain
  /\ received' = [received EXCEPT ![t] = Append(@, Head(queue[t]))]
  /\ queue' = [queue EXCEPT ![t] = Tail(@)]
  /\ drained' = drained + 1
  /\ UNCHANGED <<KEY_BINDING_FUNCS, TX, DECIDE_ACTION, CURRENT_KEYS, LAST_KEYS,
                 pc, rxAlive, cur, last, notified, scheduled, clock, SR_MODE>>
  /\ UNCHANGED registryVars

\* the consumer drops the Receiver: the channel closes and its buffer is freed
DropReceiver(t) ==
  /\ rxAlive[t]
  /\ rxAlive' = [rxAlive EXCEPT ![t] = FALSE]
  /\ queue' = [queue EXCEPT ![t] = <<>>]
  /\ UNCHANGED <<KEY_BINDING_FUNCS, TX, DECIDE_ACTION, CURRENT_KEYS, LAST_KEYS,
                 pc, cur, last, notified, received, scheduled, clock, drained,
                 SR_MODE>>
  /\ UNCHANGED registryVars

(* ---------------------------------------------------------------------- *)
(* src/keybinds.rs: the registry and the mode                               *)
(* ---------------------------------------------------------------------- *)
\* the bindings, actions and key events the registry is exercised with
RegBindings == {CtrlA, PlainA, BrowseCtrlA, TwiceShiftA}
Actions == {"A1", "A2"}
KeyEvents == [key : {"a", "b"}, mods : SUBSET ModifierBits, repeat : {1, 2}]

NoOp == [op |-> "none", stage |-> "done", sync |-> FALSE, kb |-> NoneOpt,
         act |-> NoneOpt, ev |-> NoneOpt, mode |-> NoneOpt, result |-> NoneOpt,
         ret |-> NoneOpt, prev |-> <<>>, flags |-> NoneOpt,
         spawned |-> NoneOpt, panicked |-> FALSE]

\* what the next operation remembers of the one before it
Brief(o) == <<o.op, o.kb>>

\* the callers of keybinds.rs: 0 is the capture thread (the _sync
\* functions, blocking_lock), the others are async tasks (lock().await)
LockTasks == 0..MaxTasks
AsyncTasks == 1..MaxTasks

IdleTask == [op |-> "none", stage |-> "idle", holds |-> {}, kb |-> NoneOpt,
             srm |-> NoneOpt, mode |-> NoneOpt, for |-> 0, flags |-> NoneOpt]

InitRegistry ==
  /\ KB_MAP = <<>>
  /\ kbLock = FALSE
  /\ regop = NoOp
  /\ srLock = FALSE
  /\ task = [t \in LockTasks |-> IdleTask]

\* HashMap::insert and HashMap::remove
Insert(m, k, v) == [x \in (DOMAIN m) \cup {k} |-> IF x = k THEN v ELSE m[x]]
Remove(m, k) == [x \in (DOMAIN m) \ {k} |-> m[x]]

\* add_keybind: lock KB_MAP, insert, return true. The variant that comes
\* first keeps the action of a binding that is already registered.
add_keybind_keep_old(kb, func) ==
  /\ ~kbLock
  /\ KB_MAP' = IF kb \in DOMAIN KB_MAP THEN KB_MAP ELSE Insert(KB_MAP, kb, func)
  /\ regop' = [NoOp EXCEPT !.op = "add", !.kb = Some(kb), !.act = Some(func),
                           !.ret = Some(TRUE), !.prev = Brief(regop)]
  /\ UNCHANGED <<kbLock, SR_MODE>>
  /\ UNCHANGED captureVars
  /\ UNCHANGED lockVars
add_keybind(kb, func) ==
  /\ ~kbLock
  /\ KB_MAP' = Insert(KB_MAP, kb, func)
  /\ regop' = [NoOp EXCEPT !.op = "add", !.kb = Some(kb), !.act = Some(func),
                           !.ret = Some(TRUE), !.prev = Brief(regop)]
  /\ UNCHANGED <<kbLock, SR_MODE>>
  /\ UNCHANGED captureVars
  /\ UNCHANGED lockVars

\* remove_keybind: lock KB_MAP, remove, return true
remove_keybind(kb) ==
  /\ ~kbLock
  /\ KB_MAP' = Remove(KB_MAP, kb)
  /\ regop' = [NoOp EXCEPT !.op = "remove", !.kb = Some(kb),
                           !.ret = Some(TRUE), !.prev = Brief(regop)]
  /\ UNCHANGED <<kbLock, SR_MODE>>
  /\ UNCHANGED captureVars
  /\ UNCHANGED lockVars

\* the loop of keyevent_match over the locked map with the mode it read: the
\* first matching binding in the HashMap's iteration order, any matching one.
\* The variant that comes first tests the modifiers with contains.
keyevent_match_contains(map, kbm, sr_mode) ==
  LET hits == {kb \in DOMAIN map :
                 /\ kb.key = kbm.key
                 /\ kb.repeat = kbm.repeat
                 /\ Contains(kb.mods, kbm.mods)
                 /\ (kb.mode # NoneOpt => kb.mode[1] = sr_mode)}
  IN IF hits = {} THEN {NoneOpt} ELSE {Some(kb) : kb \in hits}
keyevent_match(map, kbm, sr_mode) ==
  LET hits == {kb \in DOMAIN map :
                 /\ kb.key = kbm.key
                 /\ kb.repeat = kbm.repeat
                 /\ \/ (kb.mods = ModifiersNONE /\ kbm.mods = ModifiersNONE)
                    \/ Intersects(kb.mods, kbm.mods)
                 /\ (kb.mode # NoneOpt => kb.mode[1] = sr_mode)}
  IN IF hits = {} THEN {NoneOpt} ELSE {Some(kb) : kb \in hits}

\* the loop of keyevent_match_sync; the variant that comes first leaves the
\* mode test out
keyevent_match_sync_any_mode(map, kbm, sr_mode) ==
  LET hits == {kb \in DOMAIN map :
                 /\ kb.key = kbm.key
                 /\ kb.repeat = kbm.repeat
                 /\ \/ (kb.mods = ModifiersNONE /\ kbm.mods = ModifiersNONE)
                    \/ Intersects(kb.mods, kbm.mods)}
  IN IF hits = {} THEN {NoneOpt} ELSE {Some(kb) : kb \in hits}
keyevent_match_sync(map, kbm, sr_mode) ==
  LET hits == {kb \in DOMAIN map :
                 /\ kb.key = kbm.key
                 /\ kb.repeat = kbm.repeat
                 /\ \/ (kb.mods = ModifiersNONE /\ kbm.mods = ModifiersNONE)
                    \/ Intersects(kb.mods, kbm.mods)
                 /\ (kb.mode # NoneOpt => kb.mode[1] = sr_mode)}
  IN IF hits = {} THEN {NoneOpt} ELSE {Some(kb) : kb \in hits}

\* keyevent_match / keyevent_match_sync, first step: lock KB_MAP
MatchLock(kbm, sync) ==
  /\ ~kbLock
  /\ kbLock' = TRUE
  /\ regop' = [NoOp EXCEPT !.op = "match", !.stage = "locked", !.sync = sync,
                           !.ev = Some(kbm), !.prev = Brief(regop)]
  /\ UNCHANGED <<KB_MAP, SR_MODE>>
  /\ UNCHANGED captureVars
  /\ UNCHANGED lockVars

\* second step: get_sr_mode / get_sr_mode_sync, a clone of SR_MODE
MatchGetSrMode ==
  /\ regop.op = "match" /\ regop.stage = "locked"
  /\ regop' = [regop EXCEPT !.stage = "mode", !.mode = Some(SR_MODE)]
  /\ UNCHANGED <<KB_MAP, kbLock, SR_MODE>>
  /\ UNCHANGED captureVars
  /\ UNCHANGED lockVars

\* last step: the loop over the map, the return and the release of KB_MAP
MatchReturn ==
  /\ regop.op = "match" /\ regop.stage = "mode"
  /\ \E r \in IF regop.sync
              THEN keyevent_match_sync(KB_MAP, regop.ev[1], regop.mode[1])
              ELSE keyevent_match(KB_MAP, regop.ev[1], regop.mode[1]) :
       regop' = [regop EXCEPT !.stage = "done", !.result = r]
  /\ kbLock' = FALSE
  /\ UNCHANGED <<KB_MAP, SR_MODE>>
  /\ UNCHANGED captureVars
  /\ UNCHANGED lockVars

\* set_sr_mode
set_sr_mode(srm) ==
  /\ SR_MODE # srm
  /\ SR_MODE' = srm
  /\ UNCHANGED registryVars
  /\ UNCHANGED captureVars

\* set_sr_mode_sync
set_sr_mode_sync(srm) ==
  /\ SR_MODE # srm
  /\ SR_MODE' = srm
  /\ UNCHANGED registryVars
  /\ UNCHANGED captureVars

\* decide_action: keyevent_match_sync under the KB_MAP lock, then the matched
\* binding's (notify, consume), or (false, false). The variant that comes
\* first notifies for every matched binding.
decide_action_always_notify(ke) ==
  /\ ~kbLock
  /\ \E r \in keyevent_match_sync(KB_MAP, ke, SR_MODE) :
       regop' = [NoOp EXCEPT !.op = "decide", !.sync = TRUE, !.ev = Some(ke),
                             !.mode = Some(SR_MODE), !.result = r,
                             !.flags = Some(IF r # NoneOpt
                                            THEN <<TRUE, r[1].consume>>
                                            ELSE <<FALSE, FALSE>>),
                             !.prev = Brief(regop)]
  /\ UNCHANGED <<KB_MAP, kbLock, SR_MODE>>
  /\ UNCHANGED captureVars
  /\ UNCHANGED lockVars
decide_action(ke) ==
  /\ ~kbLock
  /\ \E r \in keyevent_match_sync(KB_MAP, ke, SR_MODE) :
       regop' = [NoOp EXCEPT !.op = "decide", !.sync = TRUE, !.ev = Some(ke),
                             !.mode = Some(SR_MODE), !.result = r,
                             !.flags = Some(IF r # NoneOpt
                                            THEN <<r[1].notify, r[1].consume>>
                                            ELSE <<FALSE, FALSE>>),
                             !.prev = Brief(regop)]
  /\ UNCHANGED <<KB_MAP, kbLock, SR_MODE>>
  /\ UNCHANGED captureVars
  /\ UNCHANGED lockVars

\* run_keybind_func: lock KB_MAP, get(kb).expect(..) panics when the entry is
\* missing (the guard is dropped while unwinding), else the function is
\* spawned. The variant that comes first returns when the entry is missing.
run_keybind_func_if_present(kb) ==
  /\ ~kbLock
  /\ regop' = IF kb \in DOMAIN KB_MAP
              THEN [NoOp EXCEPT !.op = "run", !.kb = Some(kb),
                                !.spawned = Some(KB_MAP[kb]),
                                !.ret = Some(TRUE), !.prev = Brief(regop)]
              ELSE [NoOp EXCEPT !.op = "run", !.kb = Some(kb),
                                !.ret = Some(TRUE), !.prev = Brief(regop)]
  /\ UNCHANGED <<KB_MAP, kbLock, SR_MODE>>
  /\ UNCHANGED captureVars
  /\ UNCHANGED lockVars
run_keybind_func(kb) ==
  /\ ~kbLock
  /\ regop' = IF kb \in DOMAIN KB_MAP
              THEN [NoOp EXCEPT !.op = "run", !.kb = Some(kb),
                                !.spawned = Some(KB_MAP[kb]),
                                !.ret = Some(TRUE), !.prev = Brief(regop)]
              ELSE [NoOp EXCEPT !.op = "run", !.kb = Some(kb),
                                !.panicked = TRUE, !.prev = Brief(regop)]
  /\ UNCHANGED <<KB_MAP, kbLock, SR_MODE>>
  /\ UNCHANGED captureVars
  /\ UNCHANGED lockVars

(* ---------------------------------------------------------------------- *)
(* src/keybinds.rs: the two mutexes, one step per lock, body and unlock     *)
(* ---------------------------------------------------------------------- *)
\* the binding and the key event the calls are made with
LockBinding == CtrlA
LockEvent == [key |-> "a", mods |-> {"CONTROL_L"}, repeat |-> 1]

\* the functions that start with KB_MAP.lock() / blocking_lock(), and those
\* that start with SR_MODE.lock() / blocking_lock()
RegistryOps == {"add", "remove", "match", "run", "decide"}
ModeOps == {"get", "set"}

\* a call is entered: it waits for the first mutex it locks
TaskStart(t, op, kb, srm) ==
  /\ task[t].stage \in {"idle", "decided"}
  /\ task' = [task EXCEPT ![t] =
                [IdleTask EXCEPT !.op = op,
                                 !.stage = IF op \in ModeOps THEN "wantSR" ELSE "wantKB",
                                 !.kb = kb, !.srm = srm, !.for = clock + 1]]
  /\ UNCHANGED <<KB_MAP, kbLock, regop, srLock, SR_MODE>>
  /\ UNCHANGED captureVars

\* KB_MAP.lock().await / KB_MAP.blocking_lock() returns the guard;
\* keyevent_match and keyevent_match_sync go on to get_sr_mode
LockKB(t) ==
  /\ task[t].stage = "wantKB"
  /\ ~kbLock
  /\ kbLock' = TRUE
  /\ task' = [task EXCEPT ![t].holds = @ \cup {"KB"},
                          ![t].stage = IF task[t].op \in {"match", "decide"}
                                       THEN "wantSR" ELSE "hasKB"]
  /\ UNCHANGED <<KB_MAP, regop, srLock, SR_MODE>>
  /\ UNCHANGED captureVars

\* add_keybind: insert, the guard is dropped at the return
TaskAddKeybind(t) ==
  /\ task[t].stage = "hasKB" /\ task[t].op = "add"
  /\ KB_MAP' = Insert(KB_MAP, task[t].kb[1], "A1")
  /\ kbLock' = FALSE
  /\ task' = [task EXCEPT ![t] = IdleTask]
  /\ UNCHANGED <<regop, srLock, SR_MODE>>
  /\ UNCHANGED captureVars

\* remove_keybind: remove, the guard is dropped at the return
TaskRemoveKeybind(t) ==
  /\ task[t].stage = "hasKB" /\ task[t].op = "remove"
  /\ KB_MAP' = Remove(KB_MAP, task[t].kb[1])
  /\ kbLock' = FALSE
  /\ task' = [task EXCEPT ![t] = IdleTask]
  /\ UNCHANGED <<regop, srLock, SR_MODE>>
  /\ UNCHANGED captureVars

\* run_keybind_func: get(kb), spawn or panic; the guard is dropped at the
\* return or while unwinding
TaskRunKeybindFunc(t) ==
  /\ task[t].stage = "hasKB" /\ task[t].op = "run"
  /\ kbLock' = FALSE
  /\ task' = [task EXCEPT ![t] = IdleTask]
  /\ UNCHANGED <<KB_MAP, regop, srLock, SR_MODE>>
  /\ UNCHANGED captureVars

\* SR_MODE.lock().await / SR_MODE.blocking_lock() returns the guard. The
\* variant that comes first has set_sr_mode look into the registry while it
\* holds the mode.
LockSR_then_registry(t) ==
  /\ task[t].stage = "wantSR"
  /\ ~srLock
  /\ srLock' = TRUE
  /\ task' = [task EXCEPT ![t].holds = @ \cup {"SR"},
                          ![t].stage = IF task[t].op = "set" THEN "wantKB" ELSE "hasSR"]
  /\ UNCHANGED <<KB_MAP, kbLock, regop, SR_MODE>>
  /\ UNCHANGED captureVars
LockSR(t) ==
  /\ task[t].stage = "wantSR"
  /\ ~srLock
  /\ srLock' = TRUE
  /\ task' = [task EXCEPT ![t].holds = @ \cup {"SR"}, ![t].stage = "hasSR"]
  /\ UNCHANGED <<KB_MAP, kbLock, regop, SR_MODE>>
  /\ UNCHANGED captureVars

\* get_sr_mode / get_sr_mode_sync: clone the mode, the temporary guard is
\* dropped; inside keyevent_match(_sync) the loop over the map comes next
TaskGetSrMode(t) ==
  /\ task[t].stage = "hasSR" /\ task[t].op \in {"get", "match", "decide"}
  /\ srLock' = FALSE
  /\ task' = [task EXCEPT ![t] =
                IF task[t].op = "get" THEN IdleTask
                ELSE [@ EXCEPT !.holds = @ \ {"SR"}, !.stage = "loop",
                               !.mode = Some(SR_MODE)]]
  /\ UNCHANGED <<KB_MAP, kbLock, regop, SR_MODE>>
  /\ UNCHANGED captureVars

\* set_sr_mode / set_sr_mode_sync: write the mode, the guard is dropped
TaskSetSrMode(t) ==
  /\ task[t].stage = "hasSR" /\ task[t].op = "set"
  /\ SR_MODE' = task[t].srm[1]
  /\ srLock' = FALSE
  /\ task' = [task EXCEPT ![t] = IdleTask]
  /\ UNCHANGED <<KB_MAP, kbLock, regop>>
  /\ UNCHANGED captureVars

\* keyevent_match: the loop and the return, which drops the KB_MAP guard
TaskMatchReturn(t) ==
  /\ task[t].stage = "loop" /\ task[t].op = "match"
  /\ kbLock' = FALSE
  /\ task' = [task EXCEPT ![t] = IdleTask]
  /\ UNCHANGED <<KB_MAP, regop, srLock, SR_MODE>>
  /\ UNCHANGED captureVars

\* decide_action on the capture thread: keyevent_match_sync returns (its
\* KB_MAP guard is dropped) and the flags are handed to the caller. The
\* variant that comes first keeps the guard alive after the return.
TaskDecideReturn_keeps_guard(t) ==
  /\ task[t].stage = "loop" /\ task[t].op = "decide"
  /\ \E r \in keyevent_match_sync(KB_MAP, LockEvent, task[t].mode[1]) :
       task' = [task EXCEPT ![t].stage = "decided",
                            ![t].flags = Some(IF r # NoneOpt
                                              THEN <<r[1].notify, r[1].consume>>
                                              ELSE <<FALSE, FALSE>>)]
  /\ UNCHANGED <<KB_MAP, kbLock, regop, srLock, SR_MODE>>
  /\ UNCHANGED captureVars
TaskDecideReturn(t) ==
  /\ task[t].stage = "loop" /\ task[t].op = "decide"
  /\ \E r \in keyevent_match_sync(KB_MAP, LockEvent, task[t].mode[1]) :
       task' = [task EXCEPT ![t].stage = "decided",
                            ![t].holds = @ \ {"KB"},
                            ![t].flags = Some(IF r # NoneOpt
                                              THEN <<r[1].notify, r[1].consume>>
                                              ELSE <<FALSE, FALSE>>)]
  /\ kbLock' = FALSE
  /\ UNCHANGED <<KB_MAP, regop, srLock, SR_MODE>>
  /\ UNCHANGED captureVars

\* a call of task t moves on: it gets a mutex or runs its body
TaskStep(t) ==
  \/ LockKB(t)
  \/ LockSR(t)
  \/ TaskAddKeybind(t)
  \/ TaskRemoveKeybind(t)
  \/ TaskRunKeybindFunc(t)
  \/ TaskGetSrMode(t)
  \/ TaskSetSrMode(t)
  \/ TaskMatchReturn(t)
  \/ TaskDecideReturn(t)

\* the calls an async task makes, and those of the capture thread
AsyncCall(t) ==
  \/ \E op \in {"add", "remove", "run"} : TaskStart(t, op, Some(LockBinding), NoneOpt)
  \/ \E op \in {"match", "get"} : TaskStart(t, op, NoneOpt, NoneOpt)
  \/ \E srm \in Modes : TaskStart(t, "set", NoneOpt, Some(srm))

CaptureCall ==
  \E op \in {"decide", "get"} : TaskStart(0, op, NoneOpt, NoneOpt)

(* ---------------------------------------------------------------------- *)
(* Specifications                                                           *)
(* ---------------------------------------------------------------------- *)
Init ==
  /\ InitCapture
  /\ InitRegistry
  /\ SR_MODE = DefaultMode

\* the keys pressed and the keymap handed to init in the runs with several
\* init calls
ChannelKeys == {"ControlLeft", "KeyA"}
ChannelKeyMap == {CtrlA, PlainA}

\* the input monitoring threads of every init call and their consumers
Next ==
  \/ \E t \in Threads : init(t, ChannelKeyMap)
  \/ \E t \in Threads : ThreadStart(t)
  \/ \E t \in Threads, et \in EventTypes, k \in ChannelKeys, a \in EventActions :
       Callback(t, et, k, a, MaxRaw)
  \/ \E t \in Threads : BlockingSend(t)
  \/ \E t \in Threads : Recv(t, MaxRaw)
  \/ \E t \in Threads : DropReceiver(t)

Spec == Init /\ [][Next]_vars

\* the input monitoring thread of a single init call, longer key sequences
\* and concurrent mode writes
NextKeys ==
  \/ \E keymap \in KeyMaps : init(1, keymap)
  \/ ThreadStart(1)
  \/ \E et \in EventTypes, k \in RDevKeys, a \in EventActions :
       Callback(1, et, k, a, MaxKeys)
  \/ BlockingSend(1)
  \/ Recv(1, MaxKeys)
  \/ \E srm \in Modes : set_sr_mode(srm)
  \/ \E srm \in Modes : set_sr_mode_sync(srm)

SpecKeys == Init /\ [][NextKeys]_vars

\* one input monitoring thread fed with presses that all notify, and a
\* consumer that dequeues at most MaxDrain events
NextBackpressure ==
  \/ init(1, {CtrlA})
  \/ ThreadStart(1)
  \/ \E a \in {"Notify", "Consume"} :
       Callback(1, "KeyPress", "KeyA", a, MAX_EVENTS + MaxExtra)
  \/ BlockingSend(1)
  \/ Recv(1, MaxDrain)

SpecBackpressure == Init /\ [][NextBackpressure]_vars

\* the auto-repeat scenario: the keymap holds the Ctrl+a binding, the OS
\* delivers Press(ControlLeft), Press(KeyA) and then Press(KeyA) again and
\* again with no release
NextAutoRepeat ==
  \/ init(1, {CtrlA})
  \/ ThreadStart(1)
  \/ \E a \in EventActions :
       Callback(1, "KeyPress", IF clock = 0 THEN "ControlLeft" ELSE "KeyA", a,
                2 + MaxRepeats)
  \/ BlockingSend(1)
  \/ Recv(1, 2 + MaxRepeats)
  \/ DropReceiver(1)

SpecAutoRepeat == Init /\ [][NextAutoRepeat]_vars

\* the registry of keybinds.rs under concurrent mode writes
NextRegistry ==
  \/ \E kb \in RegBindings, f \in Actions : add_keybind(kb, f)
  \/ \E kb \in RegBindings : remove_keybind(kb)
  \/ \E kbm \in KeyEvents, sync \in BOOLEAN : MatchLock(kbm, sync)
  \/ MatchGetSrMode
  \/ MatchReturn
  \/ \E srm \in Modes : set_sr_mode(srm)
  \/ \E srm \in Modes : set_sr_mode_sync(srm)
  \/ \E kb \in RegBindings : run_keybind_func(kb)

SpecRegistry == Init /\ [][NextRegistry]_vars

\* the capture thread next to the registration API: init with an empty or a
\* one-binding keymap, key events, and add_keybind / remove_keybind calls
SharedBindings == {CtrlA, PlainA}

NextShared ==
  \/ \E keymap \in {{}, {CtrlA}} : init(1, keymap)
  \/ ThreadStart(1)
  \/ \E et \in EventTypes, k \in ChannelKeys, a \in EventActions :
       Callback(1, et, k, a, MaxKeys)
  \/ BlockingSend(1)
  \/ Recv(1, MaxKeys)
  \/ \E kb \in SharedBindings, f \in Actions : add_keybind(kb, f)
  \/ \E kb \in SharedBindings : remove_keybind(kb)

SpecShared == Init /\ [][NextShared]_vars

\* the capture thread and the async tasks calling into keybinds.rs, one
\* step per lock, body and unlock
NextLocks ==
  \/ CaptureCall
  \/ \E t \in AsyncTasks : AsyncCall(t)
  \/ \E t \in LockTasks : LockKB(t)
  \/ \E t \in LockTasks : LockSR(t)
  \/ \E t \in LockTasks : TaskAddKeybind(t)
  \/ \E t \in LockTasks : TaskRemoveKeybind(t)
  \/ \E t \in LockTasks : TaskRunKeybindFunc(t)
  \/ \E t \in LockTasks : TaskGetSrMode(t)
  \/ \E t \in LockTasks : TaskSetSrMode(t)
  \/ \E t \in LockTasks : TaskMatchReturn(t)
  \/ \E t \in LockTasks : TaskDecideReturn(t)

SpecLocks == Init /\ [][NextLocks]_vars

\* a thread that runs is scheduled again, and tokio's Mutex hands the lock
\* to its waiters in the order they asked: no waiter is passed over for ever
SpecLocksFair ==
  /\ SpecLocks
  /\ \A t \in LockTasks :
       /\ SF_vars(LockKB(t))
       /\ SF_vars(LockSR(t))
       /\ WF_vars(TaskAddKeybind(t) \/ TaskRemoveKeybind(t) \/ TaskRunKeybindFunc(t)
                    \/ TaskGetSrMode(t) \/ TaskSetSrMode(t)
                    \/ TaskMatchReturn(t) \/ TaskDecideReturn(t))

\* backpressure next to the locks: the closure handed to init asks
\* decide_action for every event (the locks are taken and released inside
\* that call, before the callback sends) and consumes the event, nothing
\* is dequeued, and once the channel has one free slot left an async task
\* registers, removes and reads or writes the mode
StallCall(t) ==
  \/ \E op \in {"add", "remove"} : TaskStart(t, op, Some(LockBinding), NoneOpt)
  \/ TaskStart(t, "get", NoneOpt, NoneOpt)
  \/ \E srm \in Modes : TaskStart(t, "set", NoneOpt, Some(srm))

NextStall ==
  \/ init(1, {CtrlA})
  \/ ThreadStart(1)
  \/ /\ pc[1] = "idle"
     /\ task[0].for <= clock
     /\ clock < MAX_EVENTS + MaxExtra
     /\ TaskStart(0, "decide", NoneOpt, NoneOpt)
  \/ /\ task[0].stage = "decided"
     /\ task[0].for = clock + 1
     /\ Callback(1, "KeyPress", "KeyA", "Consume", MAX_EVENTS + MaxExtra)
  \/ BlockingSend(1)
  \/ /\ pc[1] # "none"
     /\ Len(queue[1]) + 1 >= MAX_EVENTS
     /\ StallCall(1)
  \/ \E t \in {0, 1} : LockKB(t)
  \/ \E t \in {0, 1} : LockSR(t)
  \/ TaskAddKeybind(1)
  \/ TaskRemoveKeybind(1)
  \/ \E t \in {0, 1} : TaskGetSrMode(t)
  \/ TaskSetSrMode(1)
  \/ TaskDecideReturn(0)

SpecStall == Init /\ [][NextStall]_vars

\* decide_action over a registry whose bindings carry every combination of
\* the notify and consume flags
DecideBindings == {CtrlA, PlainA, CtrlShiftA, ShiftAConsumeOnly}

NextDecide ==
  \/ \E kb \in DecideBindings, f \in Actions : add_keybind(kb, f)
  \/ \E kb \in DecideBindings : remove_keybind(kb)
  \/ \E ke \in KeyEvents : decide_action(ke)
  \/ \E srm \in Modes : set_sr_mode_sync(srm)

SpecDecide == Init /\ [][NextDecide]_vars

(* ---------------------------------------------------------------------- *)
(* Properties                                                               *)
(* ---------------------------------------------------------------------- *)
IsPrefix(a, b) == Len(a) <= Len(b) /\ SubSeq(b, 1, Len(a)) = a

\* the threads that are in the rdev::grab event loop
Running == {t \in Threads : pc[t] \in {"idle", "send"}}

\* the event a thread is sending, not yet in the channel
Inflight(t) == IF pc[t] = "send" THEN <<cur[t].ev>> ELSE <<>>

\* a callback has returned
Returned == last.returned # NoneOpt

\* C1: a second init is fatal: at most one input monitoring thread ever
\* reaches the running event loop, and a thread spawned by a later init
\* call never does.
C1_AtMostOneCaptureThread ==
  /\ Cardinality(Running) <= 1
  /\ \A t \in Threads : t > 1 => t \notin Running

\* C2: when blocking_send fails because the Receiver was dropped, the thread
\* does not crash and the callback returns the event to the OS (propagates
\* it), whether the decision was Notify or Consume.
C2_SendFailurePassesThrough ==
  (Returned /\ last.attempted /\ last.sendErr) =>
    /\ pc[last.thread] # "panicked"
    /\ last.returned[1] = Some(last.ev)

\* C3: the callback suppresses the event (returns None) iff the decision is
\* Consume, and it attempts to enqueue the event iff the decision is Notify
\* or Consume; a Passthrough event is neither enqueued nor suppressed.
C3_SuppressIffConsumeEnqueueIffNotify ==
  /\ Returned =>
       /\ (last.returned[1] = NoneOpt) <=> (last.action = "Consume")
       /\ last.returned[1] # NoneOpt => last.returned[1] = Some(last.ev)
       /\ last.attempted <=> (last.action \in {"Notify", "Consume"})
       /\ last.action = "Passthrough" =>
            (~last.attempted /\ last.returned[1] = Some(last.ev))
  /\ \A t \in Threads :
       pc[t] = "send" => cur[t].action \in {"Notify", "Consume"}
  /\ \A t \in Threads : \A i \in 1..Len(queue[t]) :
       \E j \in 1..Len(notified[t]) : notified[t][j] = queue[t][i]

C3_Witness ==
  /\ Returned
  /\ last.action = "Consume"
  /\ last.attempted
  /\ ~last.sendErr
  /\ last.returned[1] = NoneOpt

\* C4: backpressure at the capacity boundary. The channel never holds more
\* than MAX_EVENTS events; while the consumer has dequeued nothing the thread
\* finishes at most MAX_EVENTS callbacks that notify; a thread in blocking_send
\* on a live channel can complete exactly when the channel holds fewer than
\* MAX_EVENTS events, so it blocks on the event after MAX_EVENTS and resumes
\* as soon as one event is dequeued.
C4_Backpressure ==
  /\ \A t \in Threads : Len(queue[t]) <= MAX_EVENTS
  /\ drained = 0 => Len(notified[1]) - Len(Inflight(1)) <= MAX_EVENTS
  /\ Len(notified[1]) - Len(Inflight(1)) <= MAX_EVENTS + drained
  /\ (pc[1] = "send" /\ rxAlive[1]) =>
       ((ENABLED BlockingSend(1)) <=> (Len(queue[1]) < MAX_EVENTS))
  /\ (pc[1] = "send" /\ rxAlive[1] /\ Len(queue[1]) = MAX_EVENTS) =>
       /\ ~ENABLED BlockingSend(1)
       /\ \A a \in EventActions : ~ENABLED Callback(1, "KeyPress", "KeyA", a, MAX_EVENTS + MaxExtra)

\* the thread was blocked after MAX_EVENTS events, one event was dequeued and
\* the blocked send completed
C4_Witness ==
  /\ drained = 1
  /\ pc[1] = "idle"
  /\ Len(notified[1]) = MAX_EVENTS + 1
  /\ Len(queue[1]) = MAX_EVENTS
  /\ Returned /\ last.ev.time = MAX_EVENTS + 1 /\ ~last.sendErr

\* C5: while the Receiver is alive, the events dequeued, then the events
\* buffered in the channel, then the event being sent are exactly the events
\* decided Notify or Consume in arrival order; the events dequeued are always
\* a prefix of them (none dropped, duplicated or reordered).
C5_FifoNoLossNoDup ==
  \A t \in Threads :
    /\ IsPrefix(received[t], notified[t])
    /\ rxAlive[t] => received[t] \o queue[t] \o Inflight(t) = notified[t]
    /\ \A i, j \in 1..Len(notified[t]) :
         i < j => notified[t][i].time < notified[t][j].time

C5_Witness ==
  \E t \in Threads :
    /\ rxAlive[t]
    /\ Len(notified[t]) = 2
    /\ Len(received[t]) = 1
    /\ Len(queue[t]) = 1

\* C6: modifier test of keyevent_match and keyevent_match_sync. Among the
\* bindings whose key, repeat and mode match the event, one with empty
\* modifiers matches iff the event's modifiers are empty and one with
\* non-empty modifiers matches iff it shares a bit with the event's: the call
\* returns one of the bindings that match in this sense, and no match only
\* when there is none.
C6_Eligible(kb, ev, md) ==
  /\ kb.key = ev.key
  /\ kb.repeat = ev.repeat
  /\ (kb.mode = NoneOpt \/ kb.mode = Some(md))

C6_ModsClaim(kb, ev) ==
  IF kb.mods = {} THEN ev.mods = {}
  ELSE \E bit \in kb.mods : bit \in ev.mods

MatchDone == regop.op = "match" /\ regop.stage = "done"

C6_RegistryModifierTest ==
  MatchDone =>
    LET ev == regop.ev[1]
        md == regop.mode[1]
        hits == {kb \in DOMAIN KB_MAP : C6_Eligible(kb, ev, md) /\ C6_ModsClaim(kb, ev)}
    IN /\ regop.result # NoneOpt => regop.result[1] \in hits
       /\ regop.result = NoneOpt => hits = {}

\* a Ctrl binding matched a Ctrl+Shift event
C6_Witness ==
  /\ MatchDone
  /\ regop.result = Some(CtrlA)
  /\ regop.ev[1].mods = {"CONTROL_L", "SHIFT_L"}

\* C7: on a new press whose held keys normalize to key K and modifiers M,
\* keybind_match selects (and the callback schedules) a binding of the keymap
\* with key K and repeat 1 whenever the binding's modifiers and M are both
\* empty or share a bit.
C7_CaptureModifierTest ==
  (Returned /\ last.outcome = "NewTransition" /\ last.key # NoneOpt) =>
    \A kb \in KEY_BINDING_FUNCS[1] :
      (/\ kb.key = last.key[1]
       /\ kb.repeat = 1
       /\ \/ (kb.mods = {} /\ last.mods = {})
          \/ \E bit \in kb.mods : bit \in last.mods)
      => last.func # NoneOpt

\* C8: mode gating of keyevent_match and keyevent_match_sync. A binding with
\* mode Some(X) is never returned when the mode the call read differs from X,
\* whatever set_sr_mode did before or after; a binding with mode None is
\* eligible in every mode.
C8_RegistryModeGating ==
  MatchDone =>
    LET ev == regop.ev[1]
        md == regop.mode[1]
    IN /\ regop.result # NoneOpt =>
            (regop.result[1].mode # NoneOpt => regop.result[1].mode[1] = md)
       /\ (\E kb \in DOMAIN KB_MAP :
             /\ kb.mode = NoneOpt
             /\ kb.key = ev.key /\ kb.repeat = ev.repeat
             /\ C6_ModsClaim(kb, ev))
          => regop.result # NoneOpt

\* a mode-gated binding was returned in its mode, and the mode was changed
\* while the call was running
C8_Witness ==
  /\ MatchDone
  /\ regop.sync
  /\ regop.result = Some(BrowseCtrlA)
  /\ regop.mode = Some("BrowseMode")
  /\ SR_MODE = "CommandMoode"

\* C9: the input monitoring thread never schedules the function of a binding
\* with mode Some(X) for an event it processes while SR_MODE differs from X.
C9_CaptureModeGating ==
  (Returned /\ last.func # NoneOpt) =>
    (last.func[1].mode # NoneOpt => last.func[1].mode[1] = last.mode)

\* C10: registry round trip. add_keybind(B, A) returns true and leaves
\* exactly the old entries plus B -> A (replacing an earlier action of B);
\* remove_keybind(B) leaves exactly the old entries without B; a match
\* against an event E that satisfies B's key, modifiers, repeat and mode, in
\* a registry where no other binding matches E, returns B when B is
\* registered and no match when it is not.
C10_Satisfies(kb, ev, md) ==
  /\ kb.key = ev.key
  /\ kb.mods = ev.mods
  /\ kb.repeat = ev.repeat
  /\ (kb.mode = NoneOpt \/ kb.mode = Some(md))

C10_AddStep ==
  (regop' # regop /\ regop'.op = "add") =>
    LET B == regop'.kb[1]
        A == regop'.act[1]
    IN /\ regop'.ret = Some(TRUE)
       /\ DOMAIN KB_MAP' = (DOMAIN KB_MAP) \cup {B}
       /\ Cardinality({x \in DOMAIN KB_MAP' : x = B}) = 1
       /\ KB_MAP'[B] = A
       /\ \A x \in (DOMAIN KB_MAP) \ {B} : KB_MAP'[x] = KB_MAP[x]

C10_RemoveStep ==
  (regop' # regop /\ regop'.op = "remove") =>
    LET B == regop'.kb[1]
    IN /\ DOMAIN KB_MAP' = (DOMAIN KB_MAP) \ {B}
       /\ \A x \in DOMAIN KB_MAP' : KB_MAP'[x] = KB_MAP[x]

C10_MatchStep ==
  (regop.op = "match" /\ regop.stage = "mode" /\ regop'.stage = "done") =>
    LET ev == regop.ev[1]
        md == regop.mode[1]
    IN \A B \in RegBindings :
         (/\ C10_Satisfies(B, ev, md)
          /\ \A kb \in (DOMAIN KB_MAP) \ {B} :
               ~(C6_Eligible(kb, ev, md) /\ C6_ModsClaim(kb, ev)))
         => /\ B \in DOMAIN KB_MAP => regop'.result = Some(B)
            /\ B \notin DOMAIN KB_MAP => regop'.result = NoneOpt

C10_RegistryRoundTrip ==
  [][C10_AddStep /\ C10_RemoveStep /\ C10_MatchStep]_vars

\* B was added and the match that followed, against an event satisfying B in
\* a registry where nothing else matches it, returned B
C10_Witness ==
  /\ MatchDone
  /\ regop.prev = <<"add", Some(CtrlA)>>
  /\ regop.ev[1] = [key |-> "a", mods |-> {"CONTROL_L"}, repeat |-> 1]
  /\ regop.result = Some(CtrlA)
  /\ DOMAIN KB_MAP = {CtrlA, PlainA}
  /\ KB_MAP[CtrlA] = "A2"

\* the callback of the latest raw event: the one a thread is sending from,
\* else the last that returned
LatestCall ==
  IF \E t \in Threads : pc[t] = "send"
  THEN cur[CHOOSE t \in Threads : pc[t] = "send"]
  ELSE last

Range(s) == {s[i] : i \in 1..Len(s)}
NoDuplicates(s) == \A i, j \in 1..Len(s) : i # j => s[i] # s[j]

\* C13: a Press of a key that is held (LAST_KEYS is the held collection
\* before the event) yields Repeat and selects no binding, whether or not
\* other keys were pressed since; a Press of a key that is not held yields
\* NewTransition.
C13_RepeatDetection ==
  (clock > 0 /\ LatestCall.ev.event_type = "KeyPress") =>
    IF LatestCall.ev.key \in Range(LAST_KEYS)
    THEN LatestCall.outcome = "Repeat" /\ LatestCall.func = NoneOpt
    ELSE LatestCall.outcome = "NewTransition"

\* C14: the held collection holds each key at most once, and after every
\* event it holds the keys held before it plus the pressed key, or minus the
\* released key (so a key is in it iff its latest event was a Press).
C14_HeldSet ==
  /\ NoDuplicates(CURRENT_KEYS)
  /\ clock > 0 =>
       Range(CURRENT_KEYS) =
         IF LatestCall.ev.event_type = "KeyPress"
         THEN Range(LAST_KEYS) \cup {LatestCall.ev.key}
         ELSE Range(LAST_KEYS) \ {LatestCall.ev.key}

\* C16: in the auto-repeat scenario Press(ControlLeft) schedules nothing, the
\* first Press(KeyA) is a new transition that schedules the Ctrl+a binding,
\* and every further Press(KeyA) is a Repeat that schedules nothing: the
\* function is spawned exactly once.
C16_AutoRepeatOnce ==
  /\ scheduled = IF clock >= 2 THEN 1 ELSE 0
  /\ clock = 1 => LatestCall.func = NoneOpt
  /\ clock = 2 => (LatestCall.outcome = "NewTransition" /\ LatestCall.func = Some(CtrlA))
  /\ clock > 2 => (LatestCall.outcome = "Repeat" /\ LatestCall.func = NoneOpt)
  /\ clock >= 2 => CURRENT_KEYS = <<"ControlLeft", "KeyA">>

\* Press(KeyA) was delivered three times and the function was spawned once
C16_Witness ==
  /\ clock >= 4
  /\ LatestCall.ev.key = "KeyA"
  /\ LatestCall.outcome = "Repeat"
  /\ scheduled = 1

\* C18: a Release selects no binding and spawns nothing, whatever is held
\* and whatever the keymap is; a Press that leaves only modifier keys held
\* spawns nothing either.
OnlyModifiers(keys) == \A k \in Range(keys) : k \in {"ControlLeft", "ShiftLeft"}

C18_Quiet(call, keys) ==
  \/ call.ev.event_type = "KeyRelease"
  \/ (call.ev.event_type = "KeyPress" /\ OnlyModifiers(keys))

C18_ReleaseNeverMatches ==
  /\ [](clock > 0 =>
          /\ LatestCall.ev.event_type = "KeyRelease" => LatestCall.outcome = "Release"
          /\ C18_Quiet(LatestCall, CURRENT_KEYS) => LatestCall.func = NoneOpt)
  /\ [][(clock' = clock + 1 /\ C18_Quiet(LatestCall', CURRENT_KEYS'))
          => scheduled' = scheduled]_vars

\* Ctrl and a are held, the Ctrl+a binding is in the keymap, a key was
\* released and only the press of a had spawned the function
C18_Witness ==
  /\ clock = 3
  /\ KEY_BINDING_FUNCS = Some({CtrlA, PlainA})
  /\ LatestCall.ev.event_type = "KeyRelease"
  /\ CURRENT_KEYS = <<"ControlLeft", "KeyA">>
  /\ scheduled = 1

\* C12: remove_keybind(B) returns true iff an entry for B was present right
\* before the call; when B is absent it returns false and leaves the
\* registry as it was.
C12_RemoveReportsPresence ==
  [][(regop' # regop /\ regop'.op = "remove") =>
       LET B == regop'.kb[1]
       IN /\ regop'.ret = Some(B \in DOMAIN KB_MAP)
          /\ B \notin DOMAIN KB_MAP => KB_MAP' = KB_MAP]_vars

\* C15: decide_action yields Passthrough (neither notify nor consume) when
\* no binding matches; when a binding matches it yields Consume if the
\* binding's consume flag is set and Notify (notify without consume)
\* otherwise, whatever the binding's flags are.
DecideDone == regop.op = "decide"

C15_NoBindingMatches ==
  \A kb \in DOMAIN KB_MAP :
    ~(C6_Eligible(kb, regop.ev[1], regop.mode[1]) /\ C6_ModsClaim(kb, regop.ev[1]))

C15_ConsumeElseNotify ==
  DecideDone =>
    LET notifies == regop.flags[1][1]
        consumes == regop.flags[1][2]
    IN /\ C15_NoBindingMatches => (~notifies /\ ~consumes)
       /\ regop.result # NoneOpt =>
            IF regop.result[1].consume
            THEN consumes
            ELSE notifies /\ ~consumes

\* C15 as amended: decide_action returns (false, false) when no binding
\* matches, and the matched binding's own (notify, consume) flags when one
\* does: a matched binding with both flags clear yields Passthrough.
C15_FlagsOfMatchedBinding ==
  DecideDone =>
    /\ C15_NoBindingMatches <=> regop.result = NoneOpt
    /\ regop.result = NoneOpt => regop.flags = Some(<<FALSE, FALSE>>)
    /\ regop.result # NoneOpt =>
         /\ regop.result[1] \in DOMAIN KB_MAP
         /\ regop.flags = Some(<<regop.result[1].notify, regop.result[1].consume>>)

\* a binding with neither flag was matched
C15_Witness ==
  /\ DecideDone
  /\ regop.result = Some(CtrlShiftA)
  /\ regop.flags = Some(<<FALSE, FALSE>>)

\* C17: run_keybind_func(B) with no entry for B in the registry panics and
\* spawns nothing; it does not return.
C17_RunWithoutEntryPanics ==
  (regop.op = "run" /\ regop.kb[1] \notin DOMAIN KB_MAP) =>
    /\ regop.panicked
    /\ regop.spawned = NoneOpt
    /\ regop.ret = NoneOpt

\* B was removed right before run_keybind_func(B)
C17_Witness ==
  /\ regop.op = "run"
  /\ regop.prev = <<"remove", regop.kb>>
  /\ regop.kb[1] \notin DOMAIN KB_MAP
  /\ regop.panicked

\* C11: the registry that add_keybind and remove_keybind mutate is the one
\* the capture thread matches against: a new press that satisfies a binding
\* of KB_MAP spawns a function, and a function is spawned only for a
\* binding that is in KB_MAP (never for a removed one).
C11_NewPress(call) ==
  /\ call.ev.event_type = "KeyPress"
  /\ call.outcome = "NewTransition"
  /\ call.key # NoneOpt

C11_OneRegistry ==
  [][clock' = clock + 1 =>
       LET call == LatestCall'
           ev == [key |-> call.key[1], mods |-> call.mods, repeat |-> 1]
       IN /\ (C11_NewPress(call)
               /\ \E B \in DOMAIN KB_MAP : C10_Satisfies(B, ev, SR_MODE))
             => (call.func # NoneOpt /\ scheduled' = scheduled + 1)
          /\ call.func # NoneOpt => call.func[1] \in DOMAIN KB_MAP]_vars

\* C19: no caller waits for the KB_MAP mutex while it holds the SR_MODE
\* mutex, no state is reachable where calls are in progress and none can
\* move, and under fair scheduling every call that was entered returns.
Busy(t) == task[t].stage \notin {"idle", "decided"}

C19_Safe ==
  /\ \A t \in LockTasks : task[t].stage = "wantKB" => "SR" \notin task[t].holds
  /\ (\E t \in LockTasks : Busy(t)) => \E t \in LockTasks : ENABLED TaskStep(t)
  /\ kbLock <=> \E t \in LockTasks : "KB" \in task[t].holds
  /\ srLock <=> \E t \in LockTasks : "SR" \in task[t].holds
  /\ \A t, u \in LockTasks : t # u => task[t].holds \cap task[u].holds = {}

C19_DeadlockFreedom ==
  /\ []C19_Safe
  /\ \A t \in LockTasks : Busy(t) ~> ~Busy(t)

\* the capture thread, inside keyevent_match_sync, holds KB_MAP and waits
\* for the SR_MODE mutex that an async set_sr_mode holds
C19_Witness ==
  /\ task[0].op = "decide" /\ task[0].stage = "wantSR" /\ task[0].holds = {"KB"}
  /\ \E t \in AsyncTasks : task[t].op = "set" /\ task[t].holds = {"SR"}

\* C20: while the capture thread is in blocking_send, and so whenever it is
\* blocked on a full channel, it holds neither the KB_MAP nor the SR_MODE
\* mutex, and the async task's add_keybind, remove_keybind, set_sr_mode and
\* get_sr_mode can be entered and can move on.
Stalled == pc[1] = "send" /\ rxAlive[1] /\ Len(queue[1]) = MAX_EVENTS

C20_NoLockWhileSending ==
  pc[1] = "send" =>
    /\ task[0].holds = {}
    /\ kbLock => "KB" \in task[1].holds
    /\ srLock => "SR" \in task[1].holds
    /\ IF Busy(1) THEN ENABLED TaskStep(1) ELSE ENABLED StallCall(1)

\* the capture thread is blocked on the full channel and the async task has
\* the registry locked
C20_Witness ==
  /\ Stalled
  /\ ~ENABLED BlockingSend(1)
  /\ task[1].op = "add" /\ task[1].holds = {"KB"}

====
